---------------------------- MODULE Spec2Model ----------------------------
(***************************************************************************)
(* Model of the indexing and retrieval engine of src/wp.py: class Index    *)
(* (postings build passes, boolean search, vector-space ranking, n-gram    *)
(* fallback search, rank-table merge) with FilterWords, AnalyseQuery and   *)
(* the sqlite3 connection that Index keeps open for its whole life.        *)
(*                                                                         *)
(* Strings that the code slices or compares character by character (text, *)
(* surface forms, lemmas, bigrams, terms) are sequences of one-character   *)
(* strings.  Document ids (titles) and part-of-speech tags are atoms.      *)
(* Real numbers are fixed-point integers in units of 1/100.                *)
(***************************************************************************)
EXTENDS Integers, Sequences, FiniteSets, TLC

VARIABLES
    collection,   \* Index.collection: the articles of wp.db, in scan order
    tables,       \* names of the tables that exist on the connection
    postings,     \* rows of table postings as the connection sees them
    ngrams,       \* rows of table ngrams as the connection sees them
    indexes,      \* the indexes of the database: records [name, tbl]
    inTxn,        \* the connection has an open (implicit) transaction
    committed,    \* what is durably committed in the index file
    atomic,       \* history: the rows written by completed passes only
    lastPass,     \* history: the last build pass issued on this Index
    passes,       \* history: number of build passes issued so far
    built,        \* history: the build methods that have completed
    table1,       \* first argument of mergeTable (a dict of the caller)
    table2,       \* second argument of mergeTable (a dict of the caller)
    res           \* outcome of the last query / merge call

vars == <<collection, tables, postings, ngrams, indexes, inTxn, committed,
          atomic, lastPass, passes, built, table1, table2, res>>

storeVars == <<tables, postings, ngrams, indexes, inTxn, committed>>
histVars == <<atomic, lastPass, passes, built>>
mergeVars == <<table1, table2>>

-----------------------------------------------------------------------------
(* Bounds of the model *)

MaxDocs == 2        \* documents in the collection
MaxPasses == 2      \* build passes issued on one Index
MaxTerms == 2       \* terms in one query
MaxRows == 3        \* rows in the relations of a store built by an earlier run

(* Program constants *)

ExcerptLimit == 100 \* generateFromOpeningText / generate_ngrams: count > 100
NgramN == 2         \* divide_ngrams: n = 2
FeatureFields == 9  \* len(features) == 9
LemmaField == 7     \* features[6], counted from 1

-----------------------------------------------------------------------------
(* Sequence helpers *)

RECURSIVE SeqsUpTo(_, _)
SeqsUpTo(S, n) ==
    IF n = 0 THEN {<<>>}
    ELSE LET shorter == SeqsUpTo(S, n - 1)
         IN  shorter \cup {Append(s, x) : s \in {t \in shorter : Len(t) = n - 1}, x \in S}

Range(s) == {s[i] : i \in 1..Len(s)}

RECURSIVE Flatten(_)
Flatten(ss) == IF ss = <<>> THEN <<>> ELSE Head(ss) \o Flatten(Tail(ss))

RECURSIVE SumSeq(_)
SumSeq(s) == IF s = <<>> THEN 0 ELSE Head(s) + SumSeq(Tail(s))

-----------------------------------------------------------------------------
(* MeCab nodes.  feature is node.feature.split(','): 9 fields for a word   *)
(* of the dictionary (field 7 the lemma), 7 fields for an unknown word.    *)
(* Tags: noun = meishi, verb = doushi, adjective = keiyoushi, particle =   *)
(* joshi; general = ippan, suru = sahen-setsuzoku, adjstem = keiyoudoushi- *)
(* gokan, proper = koyuu-meishi, number = kazu, independent = jiritsu.     *)

Node(surface, pos, sub, lemma) ==
    [surface |-> surface, nor |-> TRUE,
     feature |-> <<pos, sub, "*", "*", "*", "*", lemma, "yomi", "hatsuon">>]

UnknownNode(surface, pos, sub) ==
    [surface |-> surface, nor |-> TRUE,
     feature |-> <<pos, sub, "*", "*", "*", "*", "*">>]

EosNode == [surface |-> <<>>, nor |-> FALSE,
            feature |-> <<"BOS/EOS", "*", "*", "*", "*", "*", "*", "*", "*">>]

NodeNeko  == Node(<<"N">>, "noun", "general", <<"N">>)              \* neko
NodeInu   == Node(<<"I">>, "noun", "general", <<"I">>)              \* inu
NodeTokyo == Node(<<"T", "K">>, "noun", "proper", <<"T", "K">>)     \* Tokyo
NodeRan   == Node(<<"H", "t">>, "verb", "independent", <<"H", "r">>) \* hashit- / hashiru
NodeFast  == Node(<<"F", "k">>, "adjective", "independent", <<"F", "i">>)
NodeGa    == Node(<<"g">>, "particle", "case", <<"g">>)            \* ga
NodeKoto  == Node(<<"k">>, "noun", "dependent", <<"k">>)           \* koto
NodeYear  == Node(<<"Y">>, "noun", "suffix", <<"Y">>)              \* nen
NodeLatin == UnknownNode(<<"a">>, "noun", "proper")                \* a Latin word
NodeAux   == Node(<<"t">>, "auxverb", "*", <<"t">>)                \* ta

(* natto.MeCab().parse(text, as_nodes=True): the words, then the EOS node *)
Parse(words) == words \o <<EosNode>>

-----------------------------------------------------------------------------
(* FilterWords *)

shouldBeIncluded(feature) ==
    IF feature[1] = "noun"
    THEN feature[2] \in {"suru", "general", "adjstem", "proper", "number"}
    ELSE IF feature[1] = "adjective" THEN feature[2] = "independent"
    ELSE IF feature[1] = "verb" THEN feature[2] = "independent"
    ELSE FALSE

(* features[6] if len(features) == 9 else node.surface *)
IndexTerm(node) ==
    IF Len(node.feature) = FeatureFields THEN node.feature[LemmaField]
    ELSE node.surface

(* The terms a parse contributes, in text order, one per filtered token *)
RECURSIVE FilteredTerms(_)
FilteredTerms(nodes) ==
    IF nodes = <<>> THEN <<>>
    ELSE LET node == Head(nodes)
             rest == FilteredTerms(Tail(nodes))
         IN  IF node.nor /\ shouldBeIncluded(node.feature)
             THEN <<IndexTerm(node)>> \o rest
             ELSE rest

(* AnalyseQuery.extractWords with func = FilterWords.shouldBeIncluded *)
extractWords(words) == FilteredTerms(Parse(words))

-----------------------------------------------------------------------------
(* The articles.  text and opening_text are given by MeCab's segmentation; *)
(* the characters of the text are the surfaces one after the other.        *)

Article(title, text, opening) ==
    [title |-> title, text |-> text, opening_text |-> opening]

Pool ==
    << Article("D1", <<NodeNeko, NodeGa, NodeNeko, NodeNeko>>, <<NodeNeko, NodeGa>>),
       Article("D2", <<NodeNeko, NodeInu, NodeRan, NodeAux, NodeLatin>>, <<NodeNeko, NodeInu>>),
       Article("D3", <<NodeInu, NodeKoto, NodeTokyo, NodeYear, NodeFast, NodeInu>>,
               <<NodeInu, NodeKoto>>) >>

DocIds == {Pool[i].title : i \in 1..Len(Pool)}

(* WikipediaCollection: any articles of the pool in table order, at most   *)
(* MaxDocs of them; titles are unique (the id of an article)               *)
PoolSubSeq(keep) == SelectSeq(Pool, LAMBDA a : a.title \in keep)

Collections == {PoolSubSeq(keep) : keep \in {k \in SUBSET DocIds : Cardinality(k) <= MaxDocs}}

num_documents(coll) == Len(coll)

TextChars(nodes) == Flatten([i \in 1..Len(nodes) |-> nodes[i].surface])


-----------------------------------------------------------------------------
(* AnalyseQuery.divide_ngrams.  Character classes of the model: " " the    *)
(* ASCII space, "fs" the full-width space (white space to strip(), " "     *)
(* after NFKC), "." ASCII punctuation, "a" a Latin letter, "fa" a full-    *)
(* width Latin letter ("a" after NFKC), "Y" a date marker (nen/gatsu/hi).  *)

IsWhite(ch) == ch \in {" ", "fs"}

RECURSIVE LStrip(_)
LStrip(s) == IF s # <<>> /\ IsWhite(Head(s)) THEN LStrip(Tail(s)) ELSE s

RECURSIVE RStrip(_)
RStrip(s) ==
    IF s # <<>> /\ IsWhite(s[Len(s)]) THEN RStrip(SubSeq(s, 1, Len(s) - 1)) ELSE s

Strip(s) == RStrip(LStrip(s))

NFKC(ch) == IF ch = "fs" THEN " " ELSE IF ch = "fa" THEN "a" ELSE ch

(* translate(table_for_remove) and the three re.sub calls *)
Stripped(ch) == ch \in {".", "a", "Y"}

divide_ngrams(query) ==
    LET noSpace == SelectSeq(Strip(query), LAMBDA ch : ch # " ")
        normal  == [i \in 1..Len(noSpace) |-> NFKC(noSpace[i])]
        kept    == SelectSeq(normal, LAMBDA ch : ~Stripped(ch))
    IN  [i \in 1..Len(kept) |->
            SubSeq(kept, i, IF i + NgramN - 1 <= Len(kept) THEN i + NgramN - 1 ELSE Len(kept))]

-----------------------------------------------------------------------------
(* Per-document aggregation of the build passes: the dict term -> count,   *)
(* in insertion order (the order of first occurrence in the text).         *)

RECURSIVE FirstOccurrences(_)
FirstOccurrences(terms) ==
    IF terms = <<>> THEN <<>>
    ELSE LET init == FirstOccurrences(SubSeq(terms, 1, Len(terms) - 1))
             last == terms[Len(terms)]
         IN  IF last \in Range(init) THEN init ELSE Append(init, last)

CountOf(term, terms) == Cardinality({i \in 1..Len(terms) : terms[i] = term})

(* Variant of PostingRows that inserts one row per filtered token *)
PostingRowsPerToken(nodes, id) ==
    LET terms == FilteredTerms(nodes)
    IN  [i \in 1..Len(terms) |-> [term |-> terms[i], document_id |-> id, times |-> 1]]

(* Variant of PostingRows that leaves out the first term of the document *)
PostingRowsDropFirst(nodes, id) ==
    LET terms == FilteredTerms(nodes)
        keys  == FirstOccurrences(terms)
    IN  [i \in 1..(Len(keys) - 1) |->
            [term |-> keys[i + 1], document_id |-> id, times |-> CountOf(keys[i + 1], terms)]]

(* The rows INSERTed INTO postings for one article *)
PostingRows(nodes, id) ==
    LET terms == FilteredTerms(nodes)
        keys  == FirstOccurrences(terms)
    IN  [i \in 1..Len(keys) |->
            [term |-> keys[i], document_id |-> id, times |-> CountOf(keys[i], terms)]]

(* ngrams_titles: the rows INSERTed INTO ngrams for one article *)
NgramRows(nodes, id) ==
    LET grams == divide_ngrams(TextChars(nodes))
    IN  [i \in 1..Len(grams) |-> [term |-> grams[i], document_id |-> id]]

-----------------------------------------------------------------------------
(* The sqlite3 connection self.db (sqlite3 module of Python 3.6 and later, *)
(* default isolation level): INSERT opens a transaction when none is open, *)
(* DDL runs inside the open transaction or, with none open, is committed   *)
(* at once; nothing but commit() ends the transaction.  A statement reads  *)
(* what the connection has written, committed or not.                      *)

Durable(db) ==
    [tables |-> db.tables, postings |-> db.postings, ngrams |-> db.ngrams,
     indexes |-> db.indexes]

Settle(db) == IF db.inTxn THEN db ELSE [db EXCEPT !.committed = Durable(db)]

(* CREATE TABLE IF NOT EXISTS name *)
CreateTable(db, name) == Settle([db EXCEPT !.tables = @ \cup {name}])

(* INSERT INTO postings VALUES(?, ?, ?), once per row *)
InsertPostings(db, rows) ==
    IF rows = <<>> THEN db
    ELSE [db EXCEPT !.postings = @ \o rows, !.inTxn = TRUE]

(* executemany("INSERT INTO ngrams(term, document_id) VALUES(?, ?)", rows): *)
(* the transaction is opened before the rows are read, also for no rows    *)
InsertNgrams(db, rows) == [db EXCEPT !.ngrams = @ \o rows, !.inTxn = TRUE]

(* Variant of CreateIndex that names the index after its table *)
CreateIndexPerTable(db, name, tbl) ==
    Settle([db EXCEPT !.indexes = @ \cup {[name |-> tbl, tbl |-> tbl]}])

(* CREATE INDEX IF NOT EXISTS name ON tbl(term, document_id): index names *)
(* are unique in the database, whatever table they are on                  *)
CreateIndex(db, name, tbl) ==
    IF \E ix \in db.indexes : ix.name = name THEN db
    ELSE Settle([db EXCEPT !.indexes = @ \cup {[name |-> name, tbl |-> tbl]}])

(* self.db.commit() *)
Commit(db) == [db EXCEPT !.inTxn = FALSE, !.committed = Durable(db)]

Db == [tables |-> tables, postings |-> postings, ngrams |-> ngrams,
       indexes |-> indexes, inTxn |-> inTxn, committed |-> committed]

SetDb(db) ==
    /\ tables' = db.tables
    /\ postings' = db.postings
    /\ ngrams' = db.ngrams
    /\ indexes' = db.indexes
    /\ inTxn' = db.inTxn
    /\ committed' = db.committed

EmptyDurable == [tables |-> {}, postings |-> <<>>, ngrams |-> <<>>, indexes |-> {}]

-----------------------------------------------------------------------------
(* Build passes.  done is the number of articles whose rows were inserted: *)
(* all of them (up to the cap) when the pass completes, those before the   *)
(* failing article when get_all_documents / MeCab / the store raises.      *)

Capped(coll, limit) == SubSeq(coll, 1, IF Len(coll) > limit THEN limit ELSE Len(coll))

RECURSIVE InsertAllPostings(_, _, _)
InsertAllPostings(db, docs, field) ==
    IF docs = <<>> THEN db
    ELSE InsertAllPostings(
            InsertPostings(db, PostingRows(Parse(Head(docs)[field]), Head(docs).title)),
            Tail(docs), field)

RECURSIVE InsertAllNgrams(_, _)
InsertAllNgrams(db, docs) ==
    IF docs = <<>> THEN db
    ELSE InsertAllNgrams(InsertNgrams(db, NgramRows(Head(docs).text, Head(docs).title)),
                         Tail(docs))

(* Index.generate up to (not including) commit, over the first done articles *)
generateRows(db, coll, done) ==
    InsertAllPostings(CreateTable(db, "postings"), SubSeq(coll, 1, done), "text")

generate(db, coll) ==
    Commit(CreateIndex(generateRows(db, coll, Len(coll)), "termindexs", "postings"))

generateFromOpeningTextRows(db, coll, done) ==
    InsertAllPostings(CreateTable(db, "postings"), SubSeq(coll, 1, done), "opening_text")

generateFromOpeningText(db, coll) ==
    Commit(CreateIndex(
        generateFromOpeningTextRows(db, coll, Len(Capped(coll, ExcerptLimit))),
        "termindexs", "postings"))

generate_ngramsRows(db, coll, done) ==
    InsertAllNgrams(CreateTable(db, "ngrams"), SubSeq(coll, 1, done))

generate_ngrams(db, coll) ==
    Commit(CreateIndex(
        generate_ngramsRows(db, coll, Len(Capped(coll, ExcerptLimit))),
        "termindexs", "ngrams"))

Pass(op, outcome, done) ==
    [op |-> op, outcome |-> outcome, done |-> done,
     start |-> Len(postings), nstart |-> Len(ngrams)]

NoCall == [op |-> "none", terms |-> <<>>, kind |-> "none", ids |-> {}, best |-> "",
           table |-> <<>>]

Completed(op, db, done) ==
    /\ passes < MaxPasses
    /\ SetDb(db)
    /\ atomic' = [postings |-> atomic.postings \o SubSeq(db.postings, Len(postings) + 1, Len(db.postings)),
                  ngrams |-> atomic.ngrams \o SubSeq(db.ngrams, Len(ngrams) + 1, Len(db.ngrams))]
    /\ lastPass' = Pass(op, "completed", done)
    /\ passes' = passes + 1
    /\ built' = built \cup {op}
    /\ res' = NoCall
    /\ UNCHANGED <<collection, mergeVars>>

Aborted(op, db, done) ==
    /\ passes < MaxPasses
    /\ SetDb(db)
    /\ lastPass' = Pass(op, "aborted", done)
    /\ passes' = passes + 1
    /\ res' = NoCall
    /\ UNCHANGED <<collection, atomic, built, mergeVars>>

Generate == Completed("generate", generate(Db, collection), Len(collection))

GenerateFails ==
    \E k \in 1..Len(collection) :
        Aborted("generate", generateRows(Db, collection, k - 1), k - 1)

GenerateFromOpeningText ==
    Completed("generateFromOpeningText", generateFromOpeningText(Db, collection),
              Len(Capped(collection, ExcerptLimit)))

GenerateFromOpeningTextFails ==
    \E k \in 1..Len(Capped(collection, ExcerptLimit)) :
        Aborted("generateFromOpeningText",
                generateFromOpeningTextRows(Db, collection, k - 1), k - 1)

GenerateNgrams ==
    Completed("generate_ngrams", generate_ngrams(Db, collection),
              Len(Capped(collection, ExcerptLimit)))

GenerateNgramsFails ==
    \E k \in 1..Len(Capped(collection, ExcerptLimit)) :
        Aborted("generate_ngrams", generate_ngramsRows(Db, collection, k - 1), k - 1)

-----------------------------------------------------------------------------
(* Queries.  c.execute("SELECT document_id FROM postings WHERE term=?")    *)
(* .fetchall(): the document ids of the matching rows, a list, in row      *)
(* order.  fetchall() never returns None.                                  *)

Select(rows, term) ==
    LET hits == SelectSeq(rows, LAMBDA r : r.term = term)
    IN  [i \in 1..Len(hits) |-> hits[i].document_id]

EmptyList == [kind |-> "list", ids |-> {}]
SetOf(ids) == [kind |-> "set", ids |-> ids]

(* Variant of searchStep that skips a term without candidates (the TODO) *)
searchStepSkipEmpty(cands, st) ==
    IF Len(cands) = 0 THEN st
    ELSE IF st.flag THEN [titles |-> SetOf(Range(cands)), flag |-> FALSE]
    ELSE [titles |-> SetOf(st.titles.ids \cap Range(cands)), flag |-> FALSE]

(* Variant of searchStep that never clears flag: the last term wins *)
searchStepLastWins(cands, st) == [titles |-> SetOf(Range(cands)), flag |-> TRUE]

(* Variant of searchStep that joins the candidate sets *)
searchStepUnion(cands, st) ==
    [titles |-> SetOf(st.titles.ids \cup Range(cands)), flag |-> FALSE]

(* One turn of the loop of Index.search; cands == None never holds *)
searchStep(cands, st) ==
    LET temptitles == Range(cands)
    IN  IF st.flag THEN [titles |-> SetOf(temptitles), flag |-> FALSE]
        ELSE [titles |-> SetOf(st.titles.ids \cap temptitles), flag |-> FALSE]

RECURSIVE searchLoop(_, _, _)
searchLoop(rows, terms, st) ==
    IF terms = <<>> THEN st.titles
    ELSE searchLoop(rows, Tail(terms), searchStep(Select(rows, Head(terms)), st))

(* Index.search: titles = [] and flag = True before the loop *)
search(rows, terms) == searchLoop(rows, terms, [titles |-> EmptyList, flag |-> TRUE])

(* Variant of ngrams_search that scans every bigram and intersects the      *)
(* candidate sets of those that have candidates                            *)
RECURSIVE ngramsScan(_, _, _)
ngramsScan(rows, ngramsArg, st) ==
    IF ngramsArg = <<>> THEN st
    ELSE LET cands == Select(rows, Head(ngramsArg))
         IN  IF Len(cands) = 0 THEN ngramsScan(rows, Tail(ngramsArg), st)
             ELSE IF st.kind = "None"
             THEN ngramsScan(rows, Tail(ngramsArg), SetOf(Range(cands)))
             ELSE ngramsScan(rows, Tail(ngramsArg), SetOf(st.ids \cap Range(cands)))

ngrams_searchFullScan(rows, ngramsArg) ==
    ngramsScan(rows, ngramsArg, [kind |-> "None", ids |-> {}])

(* Index.ngrams_search as written: it SELECTs FROM postings, and returns   *)
(* from inside the loop; without a return the method yields None           *)
RECURSIVE ngrams_search(_, _)
ngrams_search(rows, ngramsArg) ==
    IF ngramsArg = <<>> THEN [kind |-> "None", ids |-> {}]
    ELSE LET cands == Select(rows, Head(ngramsArg))
         IN  IF Len(cands) = 0 THEN ngrams_search(rows, Tail(ngramsArg))
             ELSE SetOf(Range(cands))

-----------------------------------------------------------------------------
(* Ranking.  Weights and cosines are fixed-point numbers in units of 1/100;*)
(* math.log is tabulated in units of 1/1000.                               *)

LnTable == <<0, 693, 1099, 1386, 1609, 1792, 1946, 2079, 2197, 2303,
             2398, 2485, 2565, 2639, 2708, 2773>>

LnMilli(k) == LnTable[k]

(* 1 + math.log(len(cands)) * math.log(N / len(cands)), for N >= 1 *)
termPoint(df, n) == 100 + (LnMilli(df) * (LnMilli(n) - LnMilli(df))) \div 10000

RECURSIVE ISqrtFrom(_, _)
ISqrtFrom(n, x) ==
    LET y == (x + n \div x) \div 2
    IN  IF y >= x THEN x ELSE ISqrtFrom(n, y)

ISqrt(n) == IF n = 0 THEN 0 ELSE ISqrtFrom(n, n)

Dot(u, v) == SumSeq([i \in 1..Len(u) |-> u[i] * v[i]])

(* numpy.linalg.norm *)
Norm(v) == ISqrt(Dot(v, v))

NaN == [nan |-> TRUE, v |-> 0]

(* numpy.dot(d, q) / (norm(d) * norm(q)): numpy divides by zero to nan/inf *)
Cosine(d, q) ==
    LET den == Norm(d) * Norm(q)
    IN  IF den = 0 THEN NaN ELSE [nan |-> FALSE, v |-> (Dot(d, q) * 100) \div den]

(* defaultVector: the weight of each query term, 0 for an unseen one *)
defaultVector(rows, terms, n) ==
    [i \in 1..Len(terms) |->
        LET df == Len(Select(rows, terms[i]))
        IN  IF df = 0 THEN 0 ELSE termPoint(df, n)]

(* The keys of documentVectors in insertion order: term by term, each      *)
(* term's candidates in the order fetchall() gave them                     *)
vectorTitles(rows, terms) ==
    FirstOccurrences(Flatten([i \in 1..Len(terms) |-> Select(rows, terms[i])]))

(* documentVectors[title] *)
documentVector(rows, terms, n, title) ==
    [i \in 1..Len(terms) |->
        LET cands == Select(rows, terms[i])
        IN  IF title \in Range(cands) THEN termPoint(Len(cands), n) ELSE 0]

(* math.log(0.0) raises ValueError: N = 0 and a term that has candidates *)
rankRaises(rows, terms, n) ==
    n = 0 /\ \E i \in 1..Len(terms) : Len(Select(rows, terms[i])) > 0

(* The loop over documentVectors.items() of sortSearch *)
RECURSIVE bestLoop(_, _, _, _, _, _)
bestLoop(rows, terms, n, titles, max_cos, best_title) ==
    IF titles = <<>> THEN best_title
    ELSE LET title == Head(titles)
             cos == Cosine(documentVector(rows, terms, n, title),
                           defaultVector(rows, terms, n))
         IN  IF ~cos.nan /\ max_cos < cos.v
             THEN bestLoop(rows, terms, n, Tail(titles), cos.v, title)
             ELSE bestLoop(rows, terms, n, Tail(titles), max_cos, best_title)

(* Index.sortSearch: max_cos = -1, best_title = '' *)
sortSearch(rows, terms, n) ==
    IF rankRaises(rows, terms, n) THEN [kind |-> "ValueError", best |-> ""]
    ELSE [kind |-> "id",
          best |-> bestLoop(rows, terms, n, vectorTitles(rows, terms), -100, "")]

(* Index.sortSearchReturnTable *)
sortSearchReturnTable(rows, terms, n) ==
    IF rankRaises(rows, terms, n) THEN [kind |-> "ValueError", table |-> <<>>]
    ELSE [kind |-> "table",
          table |-> [title \in Range(vectorTitles(rows, terms)) |->
                        Cosine(documentVector(rows, terms, n, title),
                               defaultVector(rows, terms, n))]]

-----------------------------------------------------------------------------
(* Rank tables of the callers: dicts title -> score, scores in 1/100       *)

Half(x) == x \div 2

(* Variant of mergeTable that also takes the documents of table2 alone *)
mergeTableUnion(t1, t2) ==
    [title \in DOMAIN t1 \cup DOMAIN t2 |->
        IF title \notin DOMAIN t1 THEN Half(t2[title])
        ELSE IF title \in DOMAIN t2 THEN t1[title] + Half(t2[title])
        ELSE t1[title]]

(* Index.mergeTable: table1[title] + table2[title] * 0.5 *)
mergeTable(t1, t2) ==
    [title \in DOMAIN t1 |->
        IF title \in DOMAIN t2 THEN t1[title] + Half(t2[title]) ELSE t1[title]]

-----------------------------------------------------------------------------
(* Calls of the query methods.  A SELECT on a table that does not exist    *)
(* raises sqlite3.OperationalError.                                        *)

Call(op, terms, kind, ids, best, table) ==
    [op |-> op, terms |-> terms, kind |-> kind, ids |-> ids, best |-> best,
     table |-> table]

NoTable(op, terms) == Call(op, terms, "OperationalError", {}, "", <<>>)

Search(queries) ==
    \E terms \in queries :
        /\ res' = IF "postings" \notin tables THEN NoTable("search", terms)
                  ELSE LET titles == search(postings, terms)
                       IN  Call("search", terms, titles.kind, titles.ids, "", <<>>)
        /\ UNCHANGED <<collection, storeVars, histVars, mergeVars>>

NgramsSearch(queries) ==
    \E terms \in queries :
        /\ res' = IF "postings" \notin tables THEN NoTable("ngrams_search", terms)
                  ELSE LET titles == ngrams_search(postings, terms)
                       IN  Call("ngrams_search", terms, titles.kind, titles.ids, "", <<>>)
        /\ UNCHANGED <<collection, storeVars, histVars, mergeVars>>

SortSearch(queries) ==
    \E terms \in queries :
        /\ res' = IF "postings" \notin tables /\ terms # <<>>
                  THEN NoTable("sortSearch", terms)
                  ELSE LET r == sortSearch(postings, terms, num_documents(collection))
                       IN  Call("sortSearch", terms, r.kind, {}, r.best, <<>>)
        /\ UNCHANGED <<collection, storeVars, histVars, mergeVars>>

SortSearchReturnTable(queries) ==
    \E terms \in queries :
        /\ res' = IF "postings" \notin tables /\ terms # <<>>
                  THEN NoTable("sortSearchReturnTable", terms)
                  ELSE LET r == sortSearchReturnTable(postings, terms,
                                                      num_documents(collection))
                       IN  Call("sortSearchReturnTable", terms, r.kind, {}, "", r.table)
        /\ UNCHANGED <<collection, storeVars, histVars, mergeVars>>

(* The loop over table.keys() of returnBestFromTable; keys is the dict's    *)
(* iteration (insertion) order                                             *)
RECURSIVE bestFromTableLoop(_, _, _, _)
bestFromTableLoop(keys, table, max_val, max_title) ==
    IF keys = <<>> THEN max_title
    ELSE LET title == Head(keys)
         IN  IF max_val < table[title]
             THEN bestFromTableLoop(Tail(keys), table, table[title], title)
             ELSE bestFromTableLoop(Tail(keys), table, max_val, max_title)

(* Index.returnBestFromTable: max_title = '', max_val = -1 *)
returnBestFromTable(keys, table) == bestFromTableLoop(keys, table, -100, "")

(* The orders in which a dict with the keys S can iterate *)
KeyOrders(S) ==
    {k \in SeqsUpTo(S, Cardinality(S)) : Len(k) = Cardinality(S) /\ Range(k) = S}

(* A call on table1; res.terms records the iteration order of its keys *)
ReturnBestFromTable ==
    /\ res.op = "none"
    /\ \E keys \in KeyOrders(DOMAIN table1) :
          res' = Call("returnBestFromTable", keys, "id", {}, 
                      returnBestFromTable(keys, table1), table1)
    /\ UNCHANGED <<collection, storeVars, histVars, mergeVars>>

MergeTable ==
    /\ res.op = "none"
    /\ res' = Call("mergeTable", <<>>, "table", {}, "", mergeTable(table1, table2))
    /\ UNCHANGED <<collection, storeVars, histVars, mergeVars>>

-----------------------------------------------------------------------------
(* Spec: an Index on a fresh index file, over any collection; build passes *)
(* (completing or raising part-way) in any order, and a boolean search     *)
(* after any of them.  A search leaves the store as it is, so a second     *)
(* search from the same store reaches no outcome that a first does not.    *)

(* neko, inu, and a term that no article has *)
CorpusQueries == SeqsUpTo({<<"N">>, <<"I">>, <<"Z">>}, MaxTerms)

NoPass == [op |-> "none", outcome |-> "none", done |-> 0, start |-> 0, nstart |-> 0]

Init ==
    /\ collection \in Collections
    /\ tables = {}
    /\ postings = <<>>
    /\ ngrams = <<>>
    /\ indexes = {}
    /\ inTxn = FALSE
    /\ committed = EmptyDurable
    /\ atomic = [postings |-> <<>>, ngrams |-> <<>>]
    /\ lastPass = NoPass
    /\ passes = 0
    /\ built = {}
    /\ table1 = <<>>
    /\ table2 = <<>>
    /\ res = NoCall

Next ==
    \/ Generate
    \/ GenerateFails
    \/ GenerateFromOpeningText
    \/ GenerateFromOpeningTextFails
    \/ GenerateNgrams
    \/ GenerateNgramsFails
    \/ res = NoCall /\ Search(CorpusQueries)

Spec == Init /\ [][Next]_vars

-----------------------------------------------------------------------------
(* SpecQuery: an Index opened on an index file that an earlier run built,  *)
(* with any rows in its two relations, and one call of a query method.  A  *)
(* query leaves the store as it is, so a second call from the same store   *)
(* reaches no outcome that a first call does not.                          *)

StoredTerms == {<<"N">>, <<"T", "K">>}
StoredDocs == {"D1", "D2"}

StoredPostings == [term : StoredTerms, document_id : StoredDocs, times : {1}]
StoredNgrams == [term : {<<"T", "K">>}, document_id : StoredDocs]

(* neko, Tokyo (a term and a bigram), and a term that no row has *)
StoredQueries == SeqsUpTo({<<"N">>, <<"T", "K">>, <<"Z">>}, MaxTerms)

InitQuery ==
    /\ \E n \in 0..MaxDocs : collection = SubSeq(Pool, 1, n)
    /\ tables = {"postings", "ngrams"}
    /\ postings \in SeqsUpTo(StoredPostings, MaxRows)
    /\ ngrams \in SeqsUpTo(StoredNgrams, MaxRows - Len(postings))
    /\ indexes = {[name |-> "termindexs", tbl |-> "postings"]}
    /\ inTxn = FALSE
    /\ committed = [tables |-> tables, postings |-> postings, ngrams |-> ngrams,
                    indexes |-> indexes]
    /\ atomic = [postings |-> postings, ngrams |-> ngrams]
    /\ lastPass = NoPass
    /\ passes = 0
    /\ built = {}
    /\ table1 = <<>>
    /\ table2 = <<>>
    /\ res = NoCall

NextQuery ==
    \/ res = NoCall /\ Search(StoredQueries)
    \/ res = NoCall /\ NgramsSearch(StoredQueries)
    \/ res = NoCall /\ SortSearch(StoredQueries)
    \/ res = NoCall /\ SortSearchReturnTable(StoredQueries)

SpecQuery == InitQuery /\ [][NextQuery]_vars

-----------------------------------------------------------------------------
(* SpecMerge: mergeTable or returnBestFromTable applied to any rank tables  *)
(* of the caller                                                           *)

Scores == {-100, 100, 200}

RankTables == UNION {[S -> Scores] : S \in SUBSET {Pool[i].title : i \in 1..MaxDocs}}

InitMerge ==
    /\ collection = <<>>
    /\ tables = {}
    /\ postings = <<>>
    /\ ngrams = <<>>
    /\ indexes = {}
    /\ inTxn = FALSE
    /\ committed = EmptyDurable
    /\ atomic = [postings |-> <<>>, ngrams |-> <<>>]
    /\ lastPass = NoPass
    /\ passes = 0
    /\ built = {}
    /\ table1 \in RankTables
    /\ table2 \in RankTables
    /\ res = NoCall

NextMerge ==
    \/ MergeTable
    \/ ReturnBestFromTable

SpecMerge == InitMerge /\ [][NextMerge]_vars

-----------------------------------------------------------------------------
(* Properties of boolean retrieval                                         *)

HasPosting(rows, term, d) ==
    \E j \in 1..Len(rows) : rows[j].term = term /\ rows[j].document_id = d

PostedDocs(rows) == {rows[j].document_id : j \in 1..Len(rows)}

Searched == res.op = "search" /\ res.kind \in {"list", "set"}

Titles == [kind |-> res.kind, ids |-> res.ids]

(* C1: search(terms) returns exactly the documents that have a posting for *)
(* every term of a non-empty sequence, a term without postings emptying    *)
(* the result, and nothing for the empty sequence.                         *)
C1_SearchIsIntersection ==
    Searched =>
        res.ids = IF res.terms = <<>> THEN {}
                  ELSE {d \in PostedDocs(postings) :
                          \A i \in 1..Len(res.terms) : HasPosting(postings, res.terms[i], d)}

(* A search for neko and an unseen term, neko having postings *)
C1_Witness ==
    /\ Searched
    /\ res.terms = <<<<"N">>, <<"Z">>>>
    /\ Select(postings, <<"N">>) # <<>>
    /\ Select(postings, <<"Z">>) = <<>>
    /\ res.ids = {}

(* The terms of T at the positions keep, in order *)
RECURSIVE PickFrom(_, _, _)
PickFrom(T, keep, i) ==
    IF i > Len(T) THEN <<>>
    ELSE IF i \in keep THEN <<T[i]>> \o PickFrom(T, keep, i + 1)
    ELSE PickFrom(T, keep, i + 1)

Pick(T, keep) == PickFrom(T, keep, 1)

RemovedHasNoCandidates(T, keep) ==
    \E i \in (1..Len(T)) \ keep : Select(postings, T[i]) = <<>>

(* C2 as stated: search(T) is a subset of search(T') for every subsequence *)
(* T' of T, of any length, unless a removed term had no candidates.        *)
C2_SubsetOfEverySubsequence ==
    Searched =>
        \A keep \in SUBSET (1..Len(res.terms)) :
            ~RemovedHasNoCandidates(res.terms, keep) =>
                res.ids \subseteq search(postings, Pick(res.terms, keep)).ids

(* C2 amended: search(T) is a subset of search(T') for every non-empty     *)
(* subsequence T' of T, whatever the candidates of the removed terms.      *)
C2_SubsetOfNonEmptySubsequence ==
    Searched =>
        \A keep \in (SUBSET (1..Len(res.terms))) \ {{}} :
            res.ids \subseteq search(postings, Pick(res.terms, keep)).ids

(* A search for two terms that finds a document, and fewer documents than   *)
(* the search for its first term alone                                     *)
C2_Witness ==
    /\ Searched
    /\ Len(res.terms) = 2
    /\ res.terms[1] # res.terms[2]
    /\ res.ids # {}
    /\ res.ids \subseteq search(postings, Pick(res.terms, {1})).ids
    /\ res.ids # search(postings, Pick(res.terms, {1})).ids

(* C3: search gives the same titles for T, for every permutation of T and  *)
(* for T followed by T.                                                    *)
C3_OrderAndDuplicationIrrelevant ==
    Searched =>
        /\ \A f \in Permutations(1..Len(res.terms)) :
              search(postings, [i \in 1..Len(res.terms) |-> res.terms[f[i]]]) = Titles
        /\ search(postings, res.terms \o res.terms) = Titles

(* A search for two terms whose candidate sets differ and are not empty *)
C3_Witness ==
    /\ Searched
    /\ Len(res.terms) = 2
    /\ Select(postings, res.terms[1]) # <<>>
    /\ Select(postings, res.terms[2]) # <<>>
    /\ Range(Select(postings, res.terms[1])) # Range(Select(postings, res.terms[2]))

-----------------------------------------------------------------------------
(* Properties of rank fusion                                               *)

Merged == res.op = "mergeTable"

(* C4: mergeTable(A, B) has the documents of A and no other; a document of *)
(* A scores A[d] + 0.5 * B[d] when B has it and A[d] otherwise; A and B    *)
(* are left as they were.                                                  *)
C4_MergeKeys ==
    Merged =>
        /\ DOMAIN res.table = DOMAIN table1
        /\ \A d \in DOMAIN table1 :
              IF d \in DOMAIN table2
              THEN 2 * (res.table[d] - table1[d]) = table2[d]
              ELSE res.table[d] = table1[d]

C4_MergeTable ==
    /\ []C4_MergeKeys
    /\ [][Merged' => table1' = table1 /\ table2' = table2]_vars

(* merge({D1: 2.0, D2: 1.0}, {D1: 1.0}) = {D1: 2.5, D2: 1.0} *)
C4_Witness ==
    /\ Merged
    /\ table1 = ("D1" :> 200 @@ "D2" :> 100)
    /\ table2 = ("D1" :> 100)
    /\ res.table = ("D1" :> 250 @@ "D2" :> 100)

-----------------------------------------------------------------------------
(* Properties of the build passes                                          *)

(* The filtered token set of a text: the index terms of its accepted tokens *)
FilteredTokenSet(words) ==
    LET nodes == Parse(words)
    IN  {IndexTerm(nodes[k]) : k \in {i \in 1..Len(nodes) :
                                       nodes[i].nor /\ shouldBeIncluded(nodes[i].feature)}}

(* C5: once generate() has completed on an Index that started from an      *)
(* empty store, a search for any non-empty sequence of terms of a          *)
(* document's filtered token set contains that document.                   *)
C5_RoundTrip ==
    "generate" \in built =>
        \A a \in Range(collection) :
            \A terms \in SeqsUpTo(FilteredTokenSet(a.text), MaxTerms) \ {<<>>} :
                a.title \in search(postings, terms).ids

(* After generate(), a search for neko and inu, both tokens of D2, gives D2 *)
C5_Witness ==
    /\ "generate" \in built
    /\ Searched
    /\ res.terms = <<<<"N">>, <<"I">>>>
    /\ {<<"N">>, <<"I">>} \subseteq FilteredTokenSet(Pool[2].text)
    /\ Pool[2] \in Range(collection)
    /\ "D2" \in res.ids

(* The rows of postings that the last pass inserted *)
PassRows == SubSeq(postings, lastPass.start + 1, Len(postings))

PassField == IF lastPass.op = "generate" THEN "text" ELSE "opening_text"

(* Occurrences of term among the accepted tokens of a text *)
Occurrences(term, words) ==
    LET nodes == Parse(words)
    IN  Cardinality({k \in 1..Len(nodes) :
            /\ nodes[k].nor
            /\ shouldBeIncluded(nodes[k].feature)
            /\ IndexTerm(nodes[k]) = term})

TokenTerms(words) == {IndexTerm(words[k]) : k \in 1..Len(words)}

(* C6: in one pass of generate or generateFromOpeningText every processed  *)
(* document has at most one row per term, a row exactly for the terms that *)
(* occur among its accepted tokens, with times the number of occurrences   *)
(* (at least 1); rejected tokens give no row and no count.                 *)
C6_OneRowPerTermWithFrequency ==
    lastPass.op \in {"generate", "generateFromOpeningText"} =>
        /\ \A j \in 1..Len(PassRows) :
              \E i \in 1..lastPass.done : PassRows[j].document_id = collection[i].title
        /\ \A i \in 1..lastPass.done :
              LET words == collection[i][PassField]
                  title == collection[i].title
              IN  \A term \in TokenTerms(words) \cup {PassRows[j].term : j \in 1..Len(PassRows)} :
                      LET mine == {j \in 1..Len(PassRows) :
                                      /\ PassRows[j].term = term
                                      /\ PassRows[j].document_id = title}
                          n == Occurrences(term, words)
                      IN  IF n = 0 THEN mine = {}
                          ELSE /\ Cardinality(mine) = 1
                               /\ \A j \in mine : PassRows[j].times = n /\ n >= 1

(* A pass of generate on a store that already has rows, over D1, whose     *)
(* text has neko three times and a particle                                *)
C6_Witness ==
    /\ lastPass.op = "generate"
    /\ lastPass.outcome = "completed"
    /\ lastPass.start > 0
    /\ \E i \in 1..lastPass.done : collection[i].title = "D1"
    /\ \E j \in 1..Len(PassRows) :
          PassRows[j] = [term |-> <<"N">>, document_id |-> "D1", times |-> 3]
    /\ Occurrences(<<"g">>, Pool[1].text) = 0

-----------------------------------------------------------------------------
(* Properties that the code does not have                                  *)

(* C7: ngrams_search does its lookups over the relation ngrams: the titles *)
(* it returns have an n-gram posting for a supplied bigram, and its        *)
(* outcome is that of the same lookups over ngrams, whatever postings has. *)
C7_NgramsSearchReadsNgrams ==
    res.op = "ngrams_search" /\ res.kind \in {"set", "None"} =>
        /\ \A d \in res.ids :
              \E i \in 1..Len(res.terms) : HasPosting(ngrams, res.terms[i], d)
        /\ Titles = ngrams_search(ngrams, res.terms)

AllUnseen(terms) ==
    terms # <<>> /\ \A i \in 1..Len(terms) : Select(postings, terms[i]) = <<>>

(* C8: a ranking call whose query terms are all unseen surfaces an error   *)
(* or a sentinel, not the plain empty id or the plain empty rank table.    *)
C8_DegenerateQuerySurfaced ==
    res.op \in {"sortSearch", "sortSearchReturnTable"} /\ AllUnseen(res.terms) =>
        /\ ~(res.kind = "id" /\ res.best = "")
        /\ ~(res.kind = "table" /\ res.table = <<>>)

(* C9: the rows of a pass that raised part-way are neither seen by a later *)
(* search on the same Index nor ever committed: searches see, and the      *)
(* file holds, the rows of the completed passes only.                      *)
C9_PassIsAtomic ==
    /\ Searched => res.ids = search(atomic.postings, res.terms).ids
    /\ committed.postings = atomic.postings
    /\ committed.ngrams = atomic.ngrams

Indexed(tbl) == \E ix \in committed.indexes : ix.tbl = tbl

(* C10: each relation that a completed build has populated has its own     *)
(* lookup index on (term, document_id) in the store.                       *)
C10_PopulatedRelationsIndexed ==
    /\ atomic.postings # <<>> => Indexed("postings")
    /\ atomic.ngrams # <<>> => Indexed("ngrams")

-----------------------------------------------------------------------------
(* Properties of the n-gram fallback search                                *)

HasCandidates(term) == Select(postings, term) # <<>>

(* The position of the first bigram of the sequence that has candidates *)
FirstMatches(terms) ==
    {i \in 1..Len(terms) :
        HasCandidates(terms[i]) /\ \A j \in 1..(i - 1) : ~HasCandidates(terms[j])}

(* C11: ngrams_search returns at the first bigram, in sequence order, that *)
(* has candidates: the result is that bigram's document set, whatever      *)
(* bigrams follow it; when no bigram has candidates (or there is none) the *)
(* result is the absent value None, not a failure.                         *)
C11_ReturnsAtFirstMatch ==
    res.op = "ngrams_search" /\ "postings" \in tables =>
        IF FirstMatches(res.terms) = {}
        THEN res.kind = "None" /\ res.ids = {}
        ELSE \A i \in FirstMatches(res.terms) :
                /\ res.kind = "set"
                /\ res.ids = Range(Select(postings, res.terms[i]))
                /\ \A rest \in StoredQueries :
                      ngrams_search(postings, SubSeq(res.terms, 1, i) \o rest) = Titles

(* Two bigrams that both have candidates, in different documents: the      *)
(* result is the first one's documents, not the documents of both          *)
C11_Witness ==
    /\ res.op = "ngrams_search"
    /\ Len(res.terms) = 2
    /\ HasCandidates(res.terms[1])
    /\ HasCandidates(res.terms[2])
    /\ res.ids = Range(Select(postings, res.terms[1]))
    /\ res.ids # Range(Select(postings, res.terms[1])) \cap Range(Select(postings, res.terms[2]))

-----------------------------------------------------------------------------
(* Properties of best-match selection                                      *)

BestChosen == res.op = "returnBestFromTable" /\ res.table # <<>>

IsFirstMaximum(best, keys, table) ==
    /\ best \in DOMAIN table
    /\ \A d \in DOMAIN table : table[d] <= table[best]
    /\ \A i, j \in 1..Len(keys) :
          keys[j] = best /\ table[keys[i]] = table[best] => j <= i

(* C12: for every non-empty rank table returnBestFromTable returns a key   *)
(* of the table whose score is the maximum of the table, the first such    *)
(* key in the table's iteration order when several share the maximum.      *)
C12_BestIsFirstMaximum ==
    BestChosen => IsFirstMaximum(res.best, res.terms, res.table)

(* The same for the tables that have a score above -1, the start value of  *)
(* max_val                                                                 *)
BestIsFirstMaximumAboveStart ==
    BestChosen /\ (\E d \in DOMAIN res.table : res.table[d] > -100) =>
        IsFirstMaximum(res.best, res.terms, res.table)

=============================================================================
